---- MODULE Spec2Model ----
(***************************************************************************)
(* Translation sub-gizmo of egui-gizmo (src/subgizmo/translation.rs).      *)
(*                                                                         *)
(* Numbers.  f64 values are modelled by integers: one model unit is 1.0.   *)
(* Every vector of the model is parallel to a coordinate axis or is a sum  *)
(* of such vectors, so dot products, cross products, the lengths that the  *)
(* snapping code takes and the divisions it makes are exact on integers.   *)
(* The threshold 1e-5 is kept as the rational 1/EpsDen.                    *)
(***************************************************************************)
EXTENDS Integers, Sequences, FiniteSets, TLC

\* ------------------------------------------------------------------ bounds
\* Ray origins and the configured translation have their x coordinate in
\* -MaxCoord..MaxCoord; the translation stays within one unit in y and z.
MaxCoord == 1

\* 1e-5 (lines 117 and 138) is 1/EpsDen; the f32 significand has 24 bits.
EpsDen == 100000
F32Bits == 24

\* ------------------------------------------------------------ vector maths
Abs(x) == IF x < 0 THEN -x ELSE x

ZERO == <<0, 0, 0>>
VAdd(a, b) == <<a[1] + b[1], a[2] + b[2], a[3] + b[3]>>
VSub(a, b) == <<a[1] - b[1], a[2] - b[2], a[3] - b[3]>>
VNeg(a) == <<-a[1], -a[2], -a[3]>>
VMul(a, k) == <<a[1] * k, a[2] * k, a[3] * k>>
dot(a, b) == a[1] * b[1] + a[2] * b[2] + a[3] * b[3]
cross(a, b) ==
  <<a[2] * b[3] - a[3] * b[2], a[3] * b[1] - a[1] * b[3], a[1] * b[2] - a[2] * b[1]>>

\* Division that truncates toward zero (exact whenever b divides a).
Quot(a, b) ==
  IF (a >= 0) = (b > 0) THEN Abs(a) \div Abs(b) ELSE -(Abs(a) \div Abs(b))
VDiv(a, k) == <<Quot(a[1], k), Quot(a[2], k), Quot(a[3], k)>>

RECURSIVE ISqrtFrom(_, _)
ISqrtFrom(n, r) == IF (r + 1) * (r + 1) > n THEN r ELSE ISqrtFrom(n, r + 1)
\* DVec3::length: sqrt(x^2 + y^2 + z^2), exact on the model's vectors.
length(a) == ISqrtFrom(dot(a, a), 0)

\* f64::round: nearest integer of num/den (den > 0), halves away from zero.
Round(num, den) ==
  IF num >= 0 THEN (2 * num + den) \div (2 * den)
  ELSE -((2 * (-num) + den) \div (2 * den))

\* f64 -> f32: round to a 24-bit significand, ties to even.
RECURSIVE Ulp(_)
Ulp(m) == IF m < 2 ^ F32Bits THEN 1 ELSE 2 * Ulp(m \div 2)
AsF32(x) ==
  LET m == Abs(x)
      u == Ulp(m)
      q == m \div u
      r == m % u
      up == (2 * r > u) \/ (2 * r = u /\ q % 2 = 1)
      mag == (IF up THEN q + 1 ELSE q) * u
  IN IF x < 0 THEN -mag ELSE mag
as_vec3(v) == <<AsF32(v[1]), AsF32(v[2]), AsF32(v[3])>>
as_f32(q) == <<AsF32(q[1]), AsF32(q[2]), AsF32(q[3]), AsF32(q[4])>>

\* DQuat * DVec3 for a unit quaternion q = <<x, y, z, w>>.
QRotate(q, v) ==
  LET u == <<q[1], q[2], q[3]>>
      uv == cross(u, v)
  IN VAdd(v, VAdd(VMul(uv, 2 * q[4]), VMul(cross(u, uv), 2)))

\* ------------------------------------------------------------ collaborators
None == [none |-> TRUE]
Some(x) == [none |-> FALSE, some |-> x]

Dirs == {"X", "Y", "Z"}
UnitOf(direction) ==
  CASE direction = "X" -> <<1, 0, 0>>
    [] direction = "Y" -> <<0, 1, 0>>
    [] direction = "Z" -> <<0, 0, 1>>

\* crate::math::round_to_interval
round_to_interval(val, interval) ==
  IF interval <= 0 THEN val ELSE Round(val, interval) * interval

\* crate::math::ray_to_ray: closest approach of the lines a1 + ta*adir and
\* b1 + tb*bdir from the 2x2 normal equations; parallel lines take ta = 0.
ray_to_ray(a1, adir, b1, bdir) ==
  LET aa == dot(adir, adir)
      b == dot(adir, bdir)
      cc == dot(bdir, bdir)
      w == VSub(a1, b1)
      d == dot(adir, w)
      e == dot(bdir, w)
      det == aa * cc - b * b
  IN IF det = 0 THEN <<0, Quot(e, cc)>>
     ELSE <<Quot(b * e - cc * d, det), Quot(aa * e - b * d, det)>>

\* crate::math::intersect_plane: FALSE when the ray is parallel to the plane.
intersect_plane(plane_normal, plane_origin, ray_origin, ray_direction) ==
  LET denom == dot(plane_normal, ray_direction)
  IN IF denom = 0 THEN [hit |-> FALSE, t |-> 0]
     ELSE [hit |-> TRUE,
           t |-> Quot(dot(VSub(plane_origin, ray_origin), plane_normal), denom)]

plane_binormal(direction) ==
  CASE direction = "X" -> <<0, 1, 0>>
    [] direction = "Y" -> <<0, 0, 1>>
    [] direction = "Z" -> <<1, 0, 0>>
plane_tangent(direction) ==
  CASE direction = "X" -> <<0, 0, 1>>
    [] direction = "Y" -> <<1, 0, 0>>
    [] direction = "Z" -> <<0, 1, 0>>

\* SubGizmoConfig::normal: the handle direction, rotated in local space.
normal(subgizmo) ==
  IF subgizmo.config.local_space
  THEN QRotate(subgizmo.config.rotation, UnitOf(subgizmo.direction))
  ELSE UnitOf(subgizmo.direction)

plane_global_origin(subgizmo) == subgizmo.config.translation

\* ------------------------------------------------------ translation.rs
\* fn point_on_axis
point_on_axis(subgizmo, ray) ==
  LET origin == subgizmo.config.translation
      direction == normal(subgizmo)
      subgizmo_t == ray_to_ray(ray.origin, ray.direction, origin, direction)[2]
  IN VAdd(origin, VMul(direction, subgizmo_t))

\* point_on_plane, falling back to the plane origin when there is no hit.
point_on_plane_or_origin(plane_normal, plane_origin, ray) ==
  LET r == intersect_plane(plane_normal, plane_origin, ray.origin, ray.direction)
  IN IF ~r.hit THEN Some(plane_origin) ELSE Some(VAdd(ray.origin, VMul(ray.direction, r.t)))

\* fn point_on_plane
point_on_plane(plane_normal, plane_origin, ray) ==
  LET r == intersect_plane(plane_normal, plane_origin, ray.origin, ray.direction)
  IN IF ~r.hit THEN None ELSE Some(VAdd(ray.origin, VMul(ray.direction, r.t)))

\* snap_translation_vector, truncating the length to a multiple instead of
\* rounding it.
snap_translation_vector_down(subgizmo, new_delta) ==
  LET delta_length == length(new_delta)
      d == subgizmo.config.snap_distance
  IN IF delta_length * EpsDen > 1
     THEN VMul(VDiv(new_delta, delta_length), (delta_length \div d) * d)
     ELSE new_delta

\* fn snap_translation_vector
snap_translation_vector(subgizmo, new_delta) ==
  LET delta_length == length(new_delta)
  IN IF delta_length * EpsDen > 1
     THEN VMul(VDiv(new_delta, delta_length),
               round_to_interval(delta_length, subgizmo.config.snap_distance))
     ELSE new_delta

\* snap_translation_plane, snapping the length of a delta that lies along
\* one basis vector instead of returning it.
snap_translation_plane_always(subgizmo, new_delta) ==
  LET binormal == IF subgizmo.config.local_space
                  THEN QRotate(subgizmo.config.rotation, plane_binormal(subgizmo.direction))
                  ELSE plane_binormal(subgizmo.direction)
      tangent == IF subgizmo.config.local_space
                 THEN QRotate(subgizmo.config.rotation, plane_tangent(subgizmo.direction))
                 ELSE plane_tangent(subgizmo.direction)
      cb == cross(new_delta, VNeg(binormal))
      ct == cross(new_delta, tangent)
      lb == length(cb)
      lt == length(ct)
      n == normal(subgizmo)
  IN IF lb * EpsDen > 1 /\ lt * EpsDen > 1
     THEN VAdd(VMul(VMul(binormal, round_to_interval(lt, subgizmo.config.snap_distance)),
                    dot(VDiv(ct, lt), n)),
               VMul(VMul(tangent, round_to_interval(lb, subgizmo.config.snap_distance)),
                    dot(VDiv(cb, lb), n)))
     ELSE snap_translation_vector(subgizmo, new_delta)

\* snap_translation_plane, with cb taken as delta x binormal (the negation
\* dropped), which flips the sign of the tangent term.
snap_translation_plane_flipped(subgizmo, new_delta) ==
  LET binormal == IF subgizmo.config.local_space
                  THEN QRotate(subgizmo.config.rotation, plane_binormal(subgizmo.direction))
                  ELSE plane_binormal(subgizmo.direction)
      tangent == IF subgizmo.config.local_space
                 THEN QRotate(subgizmo.config.rotation, plane_tangent(subgizmo.direction))
                 ELSE plane_tangent(subgizmo.direction)
      cb == cross(new_delta, binormal)
      ct == cross(new_delta, tangent)
      lb == length(cb)
      lt == length(ct)
      n == normal(subgizmo)
  IN IF lb * EpsDen > 1 /\ lt * EpsDen > 1
     THEN VAdd(VMul(VMul(binormal, round_to_interval(lt, subgizmo.config.snap_distance)),
                    dot(VDiv(ct, lt), n)),
               VMul(VMul(tangent, round_to_interval(lb, subgizmo.config.snap_distance)),
                    dot(VDiv(cb, lb), n)))
     ELSE new_delta

\* fn snap_translation_plane
snap_translation_plane(subgizmo, new_delta) ==
  LET binormal == IF subgizmo.config.local_space
                  THEN QRotate(subgizmo.config.rotation, plane_binormal(subgizmo.direction))
                  ELSE plane_binormal(subgizmo.direction)
      tangent == IF subgizmo.config.local_space
                 THEN QRotate(subgizmo.config.rotation, plane_tangent(subgizmo.direction))
                 ELSE plane_tangent(subgizmo.direction)
      cb == cross(new_delta, VNeg(binormal))
      ct == cross(new_delta, tangent)
      lb == length(cb)
      lt == length(ct)
      n == normal(subgizmo)
  IN IF lb * EpsDen > 1 /\ lt * EpsDen > 1
     THEN VAdd(VMul(VMul(binormal, round_to_interval(lt, subgizmo.config.snap_distance)),
                    dot(VDiv(ct, lt), n)),
               VMul(VMul(tangent, round_to_interval(lb, subgizmo.config.snap_distance)),
                    dot(VDiv(cb, lb), n)))
     ELSE new_delta

\* TransformKind
Kinds == {"Axis", "Plane"}

\* pick_state, leaving last_point as the previous drag left it.
pick_state_keeps_last(state, pick_result) ==
  [start_point |-> pick_result.subgizmo_point,
   last_point |-> state.last_point,
   current_delta |-> ZERO]

\* pick_state, resetting the state only when the ray picked.
pick_state_on_hit(state, pick_result) ==
  IF pick_result.picked
  THEN [start_point |-> pick_result.subgizmo_point,
        last_point |-> pick_result.subgizmo_point,
        current_delta |-> ZERO]
  ELSE state

\* pick, lines 24-28: the closure passed to update_state_with.
pick_state(state, pick_result) ==
  [start_point |-> pick_result.subgizmo_point,
   last_point |-> pick_result.subgizmo_point,
   current_delta |-> ZERO]

\* pick_return, returning the hit parameter whether or not the ray picked.
pick_return_always(pick_result) == Some(pick_result.t)

\* pick, lines 30-34: the value returned.
pick_return(pick_result) ==
  IF pick_result.picked THEN Some(pick_result.t) ELSE None

\* update_point, giving up on an Axis handle when the ray runs along the axis.
update_point_axis_fails(subgizmo, ray) ==
  IF subgizmo.transform_kind = "Axis"
  THEN IF cross(normal(subgizmo), ray.direction) = ZERO
       THEN None
       ELSE Some(point_on_axis(subgizmo, ray))
  ELSE point_on_plane(normal(subgizmo), plane_global_origin(subgizmo), ray)

\* update, lines 40-44: the raw point under the ray, None when there is none.
update_point(subgizmo, ray) ==
  IF subgizmo.transform_kind = "Axis"
  THEN Some(point_on_axis(subgizmo, ray))
  ELSE point_on_plane(normal(subgizmo), plane_global_origin(subgizmo), ray)

\* update_delta, measuring from the previous frame's point.
update_delta_from_last(subgizmo, state, new_point) ==
  LET new_delta == VSub(new_point, state.last_point)
  IN IF subgizmo.config.snapping
     THEN IF subgizmo.transform_kind = "Axis"
          THEN snap_translation_vector(subgizmo, new_delta)
          ELSE snap_translation_plane(subgizmo, new_delta)
     ELSE new_delta

\* update, lines 46-53: the delta since the grab, snapped when snapping is on.
update_delta(subgizmo, state, new_point) ==
  LET new_delta == VSub(new_point, state.start_point)
  IN IF subgizmo.config.snapping
     THEN IF subgizmo.transform_kind = "Axis"
          THEN snap_translation_vector(subgizmo, new_delta)
          ELSE snap_translation_plane(subgizmo, new_delta)
     ELSE new_delta

\* update_new_point, keeping the raw point under the ray.
update_new_point_raw(subgizmo, state, new_point, new_delta) == new_point

\* update, line 54: with snapping the point is recomputed from the delta.
update_new_point(subgizmo, state, new_point, new_delta) ==
  IF subgizmo.config.snapping THEN VAdd(state.start_point, new_delta) ELSE new_point

\* update_state, re-anchoring start_point at the new point.
update_state_moves_start(state, new_point, new_delta) ==
  [start_point |-> new_point, last_point |-> new_point, current_delta |-> new_delta]

\* update, lines 57-60: the closure passed to update_state_with.
update_state(state, new_point, new_delta) ==
  [state EXCEPT !.last_point = new_point, !.current_delta = new_delta]

\* update_translation, reading last_point after lines 57-60 have stored the
\* new point.
update_translation_reread(subgizmo, state, new_point) ==
  VSub(VAdd(subgizmo.config.translation, new_point), new_point)

\* update_translation, recomputing from the grab point.
update_translation_from_start(subgizmo, state, new_point) ==
  VSub(VAdd(subgizmo.config.translation, new_point), state.start_point)

\* update, line 62.  `state` is the copy taken on line 38.
update_translation(subgizmo, state, new_point) ==
  VSub(VAdd(subgizmo.config.translation, new_point), state.last_point)

\* update, line 69: `value`, read from the copy taken on line 38; `stored`
\* is the state written on lines 57-60.
update_value(state, stored) == as_vec3(state.current_delta)

\* update_result, tagged with the mode of the scale handle.
update_result_scale_mode(subgizmo, state, stored, new_translation) ==
  [scale |-> as_vec3(subgizmo.config.scale),
   rotation |-> as_f32(subgizmo.config.rotation),
   translation |-> as_vec3(new_translation),
   mode |-> "Scale",
   value |-> update_value(state, stored)]

\* update, lines 64-70.
update_result(subgizmo, state, stored, new_translation) ==
  [scale |-> as_vec3(subgizmo.config.scale),
   rotation |-> as_f32(subgizmo.config.rotation),
   translation |-> as_vec3(new_translation),
   mode |-> "Translate",
   value |-> update_value(state, stored)]

\* update_failed, clearing the delta when the ray misses.
update_failed_clears(state) ==
  [ret |-> None, state |-> [state EXCEPT !.current_delta = ZERO]]

\* update, lines 43-44: the `?` returns None and leaves the state alone.
update_failed(state) == [ret |-> None, state |-> state]

\* fn update, whole: the value returned and the state left in the store.
update(subgizmo, state, ray) ==
  LET pt == update_point(subgizmo, ray)
  IN IF pt = None THEN update_failed(state)
     ELSE LET new_delta == update_delta(subgizmo, state, pt.some)
              new_point == update_new_point(subgizmo, state, pt.some, new_delta)
              stored == update_state(state, new_point, new_delta)
              new_translation == update_translation(subgizmo, state, new_point)
          IN [ret |-> Some(update_result(subgizmo, state, stored, new_translation)),
              state |-> stored]

\* ------------------------------------------------------------------- inputs
Coords == -MaxCoord .. MaxCoord
InBox(v) == v[1] \in Coords /\ v[2] \in -1 .. 1 /\ v[3] \in -1 .. 1

\* Pointer rays with unit directions: the rays along Z through the grid
\* points of the X axis, and one ray along X and one along Y.
Ray(o, d) == [origin |-> o, direction |-> UnitOf(d)]
Rays ==
  {Ray(<<x, 0, 0>>, "Z") : x \in Coords} \cup {Ray(ZERO, "X"), Ray(ZERO, "Y")}

\* What pick_arrow / pick_plane can report: a point of the handle (on the
\* arrow from the origin, on the quad spanned by binormal and tangent), the
\* hit parameter, the visibility factor and whether the ray picked.
HitOffsets == {0, 1}
HitPoints(subgizmo) ==
  LET rot(v) == IF subgizmo.config.local_space THEN QRotate(subgizmo.config.rotation, v) ELSE v
      o == subgizmo.config.translation
  IN IF subgizmo.transform_kind = "Axis"
     THEN {VAdd(o, VMul(normal(subgizmo), k)) : k \in HitOffsets}
     ELSE {VAdd(o, VAdd(VMul(rot(plane_binormal(subgizmo.direction)), i),
                        VMul(rot(plane_tangent(subgizmo.direction)), j))) :
             i \in HitOffsets, j \in HitOffsets}
HitTs == {1, 2}
Visibilities == {1}
PickResults(subgizmo) ==
  [picked : BOOLEAN, t : HitTs, visibility : Visibilities, subgizmo_point : HitPoints(subgizmo)]

\* -------------------------------------------------------------------- state
VARIABLES
  config,          \* GizmoConfig: translation, rotation, scale, snapping, ...
  transform_kind,  \* SubGizmoConfig.transform_kind
  direction,       \* SubGizmoConfig.direction
  opacity,         \* SubGizmoConfig.opacity
  state,           \* the stored TranslationState
  op,              \* the last call: "new", "pick", "update", "apply"
  ray,             \* the ray of the last update
  pick_result,     \* the hit test's answer in the last call, if it was a pick
  ret,             \* what the last pick or update returned
  grab,            \* the hit point of the most recent pick
  before_fail,     \* state and config before a run of failed updates
  recovered,       \* the last call is a successful update after failed ones
  applied_from     \* the translation at the most recent pick, for as long as
                   \* every Result since that pick has been applied

vars ==
  <<config, transform_kind, direction, opacity, state, op, ray, pick_result, ret, grab,
    before_fail, recovered, applied_from>>

self == [config |-> config, transform_kind |-> transform_kind, direction |-> direction]

\* The configurations a handle is built with: world space or local space
\* under a half turn (of an object scaled along X), snapping off or on.
Identity == <<0, 0, 0, 1>>
HalfTurnZ == <<0, 0, 1, 0>>
GizmoConfig(rotation, local_space, snapping, snap_distance) ==
  [translation |-> ZERO, rotation |-> rotation,
   scale |-> IF local_space THEN <<2, 1, 1>> ELSE <<1, 1, 1>>,
   snapping |-> snapping, snap_distance |-> snap_distance, local_space |-> local_space]
Configs ==
  {GizmoConfig(Identity, FALSE, FALSE, 2), GizmoConfig(Identity, FALSE, TRUE, 2),
   GizmoConfig(HalfTurnZ, TRUE, FALSE, 3), GizmoConfig(HalfTurnZ, TRUE, TRUE, 3)}

\* SubGizmoConfig::new and TranslationState::default.
Init ==
  /\ config \in Configs
  /\ transform_kind \in Kinds
  /\ direction \in Dirs
  /\ opacity = 0
  /\ state = [start_point |-> ZERO, last_point |-> ZERO, current_delta |-> ZERO]
  /\ op = "new"
  /\ ray = None
  /\ pick_result = None
  /\ ret = None
  /\ grab = None
  /\ before_fail = None
  /\ recovered = FALSE
  /\ applied_from = None

\* fn pick
Pick ==
  \E pr \in PickResults(self) :
    /\ opacity' = AsF32(pr.visibility)
    /\ state' = pick_state(state, pr)
    /\ ret' = pick_return(pr)
    /\ pick_result' = Some(pr)
    /\ op' = "pick"
    /\ ray' = None
    /\ grab' = Some(pr.subgizmo_point)
    /\ before_fail' = None
    /\ recovered' = FALSE
    /\ applied_from' = Some(config.translation)
    /\ UNCHANGED <<config, transform_kind, direction>>

\* fn update
Update ==
  \E r \in Rays :
    LET out == update(self, state, r)
    IN /\ state' = out.state
       /\ ret' = out.ret
       /\ ray' = Some(r)
       /\ op' = "update"
       /\ pick_result' = None
       /\ before_fail' =
            IF out.ret # None THEN None
            ELSE IF before_fail # None THEN before_fail
            ELSE Some([state |-> state, config |-> config])
       /\ recovered' = (out.ret # None /\ before_fail # None)
       /\ applied_from' = IF op = "update" /\ ret # None THEN None ELSE applied_from
       /\ UNCHANGED <<config, transform_kind, direction, opacity, grab>>

\* The caller applies the translation of the Result it has just received.
Apply ==
  /\ op = "update"
  /\ ret # None
  /\ InBox(ret.some.translation)
  /\ config' = [config EXCEPT !.translation = ret.some.translation]
  /\ op' = "apply"
  /\ UNCHANGED <<transform_kind, direction, opacity, state, ray, pick_result, ret, grab,
                 before_fail, recovered, applied_from>>

Next == Pick \/ Update \/ Apply

Spec == Init /\ [][Next]_vars

\* ------------------------------------------------------------------ claims
Succeeded == op = "update" /\ ret # None
MidDrag == state.last_point # state.start_point

\* C1: after every pick, hit or miss, the state is start_point = last_point =
\* the hit point of the hit test and current_delta = 0.
C1_PickResetsState ==
  op = "pick" =>
    /\ state.start_point = pick_result.some.subgizmo_point
    /\ state.last_point = pick_result.some.subgizmo_point
    /\ state.current_delta = ZERO

\* A pick that missed, made after a drag had moved the handle.
C1_Witness ==
  /\ op = "pick"
  /\ ~pick_result.some.picked
  /\ ret = None
  /\ config.translation # ZERO

\* C2: the Result of a successful update carries the delta since the pick
\* that this same update stores as current_delta.
C2_ResultCarriesStoredDelta ==
  (Succeeded /\ grab # None) => ret.some.value = as_vec3(state.current_delta)

\* C3: the translation of the Result of a successful update is the configured
\* translation plus the new point minus the last_point stored before the call.
C3_TranslationIsIncremental ==
  [][(op' = "update" /\ ret' # None) =>
       ret'.some.translation =
         as_vec3(VAdd(config.translation, VSub(state'.last_point, state.last_point)))]_vars

\* A successful update that moved the handle from a last_point other than
\* the grab point.
C3_Witness ==
  /\ Succeeded
  /\ ret.some.translation # as_vec3(config.translation)
  /\ ret.some.translation #
       as_vec3(VAdd(config.translation, VSub(state.last_point, state.start_point)))

\* C4: on a Plane handle an update whose ray is parallel to the plane returns
\* nothing and leaves the interaction state and the translation as they were.
Parallel(r) == dot(normal(self), r.direction) = 0
C4_ParallelRayLeavesState ==
  [][(op' = "update" /\ transform_kind = "Plane" /\ Parallel(ray'.some)) =>
       (ret' = None /\ state' = state /\ config' = config)]_vars

\* A parallel ray on a Plane handle in the middle of a drag.
C4_Witness ==
  /\ op = "update"
  /\ transform_kind = "Plane"
  /\ Parallel(ray.some)
  /\ ret = None
  /\ MidDrag
  /\ state.current_delta # ZERO

\* C5: two successive updates with the same ray, the first Result applied in
\* between, carry the same delta.
C5_SameRaySameDelta ==
  [][(op = "apply" /\ op' = "update" /\ ray' = ray /\ ret' # None) =>
       ret'.some.value = ret.some.value]_vars

\* The point of the handle's line or plane that the ray projects to: on an
\* Axis handle a point of the line no farther from the ray than the line's
\* other points, on a Plane handle the point of the plane that is on the ray.
Dist2ToRay(q, r) ==
  LET w == VSub(q, r.origin)
  IN dot(w, w) - dot(w, r.direction) * dot(w, r.direction)
Reach == -(4 * MaxCoord + 4) .. (4 * MaxCoord + 4)
IsProjection(p, r) ==
  IF transform_kind = "Axis"
  THEN /\ cross(VSub(p, config.translation), normal(self)) = ZERO
       /\ \A k \in Reach :
            Dist2ToRay(p, r) <= Dist2ToRay(VAdd(p, VMul(normal(self), k)), r)
  ELSE /\ dot(VSub(p, config.translation), normal(self)) = 0
       /\ cross(VSub(p, r.origin), r.direction) = ZERO

\* C6: without snapping, a successful update after a pick with grab point g
\* whose ray projects to p stores current_delta = p - g and emits the
\* translation increased by p - last_point.
C6_UnsnappedDeltaIsExact ==
  [][(op' = "update" /\ ret' # None /\ grab # None /\ ~config.snapping) =>
       LET p == state'.last_point
       IN /\ IsProjection(p, ray'.some)
          /\ state'.current_delta = VSub(p, grab.some)
          /\ ret'.some.translation =
               as_vec3(VAdd(config.translation, VSub(p, state.last_point)))]_vars

\* The scenario, within the bounds: X axis at the origin, grab point
\* (1,0,0), axis point (-1,0,0): current_delta (-2,0,0), translation moved
\* by (-2,0,0).
C6_Witness ==
  /\ Succeeded
  /\ transform_kind = "Axis" /\ direction = "X" /\ ~config.snapping
  /\ config.translation = ZERO
  /\ grab = Some(<<1, 0, 0>>)
  /\ state.last_point = <<-1, 0, 0>>
  /\ state.current_delta = <<-2, 0, 0>>
  /\ ret.some.translation = <<-2, 0, 0>>

\* C7: on an Axis handle with snapping on and snap distance d > 0, a
\* successful update stores the raw delta with its length rounded to the
\* nearest multiple of d, direction kept; a raw delta no longer than 1e-5 is
\* stored as it is.
C7_AxisDeltaIsMultiple ==
  [][(op' = "update" /\ ret' # None /\ transform_kind = "Axis"
        /\ config.snapping /\ config.snap_distance > 0) =>
       LET raw == VSub(point_on_axis(self, ray'.some), state.start_point)
           len == length(raw)
           cd == state'.current_delta
           d == config.snap_distance
       IN IF len * EpsDen <= 1 THEN cd = raw
          ELSE /\ length(cd) % d = 0
               /\ 2 * Abs(length(cd) - len) <= d
               /\ cross(cd, raw) = ZERO
               /\ dot(cd, raw) >= 0]_vars

\* A snapped update on an Axis handle whose raw point is not on the grid:
\* the stored point differs from the point under the ray.
C7_Witness ==
  /\ Succeeded
  /\ transform_kind = "Axis"
  /\ config.snapping /\ config.snap_distance > 0
  /\ state.current_delta # ZERO
  /\ point_on_axis(self, ray.some) # state.last_point

\* C8: the current_delta an update stores is measured from the hit point of
\* the most recent pick alone, and the first update after a pick returns and
\* stores what it would on a handle that had never been dragged before.
Fresh(g) == [start_point |-> g, last_point |-> g, current_delta |-> ZERO]
C8_DeltaNotCarriedAcrossPick ==
  [][(op' = "update" /\ ret' # None /\ grab # None) =>
       LET out == update(self, Fresh(grab.some), ray'.some)
       IN /\ state'.current_delta = out.state.current_delta
          /\ (op = "pick" => (ret' = out.ret /\ state' = out.state))]_vars

\* An update that moved the handle after a pick made where an earlier drag
\* had left the handle (the hit point is no point of the handle's first
\* position).
C8_Witness ==
  /\ Succeeded
  /\ grab # None
  /\ grab.some \notin HitPoints([self EXCEPT !.config.translation = ZERO])
  /\ state.current_delta # ZERO

\* C9: pick returns the hit parameter when the hit test reports picked, and
\* nothing when it does not.
C9_PickReturnsHitParameter ==
  op = "pick" =>
    /\ (pick_result.some.picked => ret = Some(pick_result.some.t))
    /\ (~pick_result.some.picked => ret = None)

\* A pick that hit, made after a drag had moved the handle.
C9_Witness ==
  /\ op = "pick"
  /\ pick_result.some.picked
  /\ ret = Some(2)
  /\ config.translation # ZERO

\* C10: after failed updates in a drag, the next successful update returns
\* and stores what it would have, had the failed calls not been made.
C10_NoPersistentError ==
  [][(op' = "update" /\ ret' # None /\ before_fail # None) =>
       LET was == before_fail.some
           out == update([self EXCEPT !.config = was.config], was.state, ray'.some)
       IN ret' = out.ret /\ state' = out.state /\ config' = was.config]_vars

\* A successful update right after failed ones on a Plane handle, mid-drag.
C10_Witness ==
  /\ Succeeded
  /\ recovered
  /\ transform_kind = "Plane"
  /\ state.current_delta # ZERO
  /\ ret.some.value # ZERO

\* C11: every Result carries the configured scale and rotation and the mode
\* Translate, and update leaves the configuration as it was.
C11_ResultCarriesConfig ==
  [][op' = "update" =>
       /\ config' = config
       /\ (ret' # None =>
             /\ ret'.some.scale = config.scale
             /\ ret'.some.rotation = config.rotation
             /\ ret'.some.mode = "Translate")]_vars

\* A Result that moves a rotated, scaled Plane handle with snapping on.
C11_Witness ==
  /\ Succeeded
  /\ transform_kind = "Plane" /\ config.snapping
  /\ config.rotation = HalfTurnZ /\ config.scale = <<2, 1, 1>>
  /\ ret.some.rotation = HalfTurnZ /\ ret.some.scale = <<2, 1, 1>>
  /\ ret.some.translation # config.translation

\* C12: in every reachable state last_point = start_point + current_delta.
C12_LastIsStartPlusDelta ==
  state.last_point = VAdd(state.start_point, state.current_delta)

\* A snapped update whose stored point is not the point under the ray.
C12_Witness ==
  /\ Succeeded
  /\ config.snapping
  /\ state.current_delta # ZERO
  /\ update_point(self, ray.some).some # state.last_point

\* C13: while the caller applies every Result before the next call, the
\* configured translation minus its value at the pick is current_delta.
Pending == op = "update" /\ ret # None
C13_IncrementsTelescope ==
  (applied_from # None /\ ~Pending) =>
    VSub(config.translation, applied_from.some) = state.current_delta

\* The second or a later Result of a drag with snapping on, applied: the
\* Result's value shows a delta stored earlier in the drag.
C13_Witness ==
  /\ op = "apply"
  /\ applied_from # None
  /\ config.snapping
  /\ state.current_delta # ZERO
  /\ ret.some.value # ZERO
  /\ ret.some.value # as_vec3(state.current_delta)

\* C14: update leaves start_point alone, so after a pick start_point stays
\* the hit point of the most recent pick through every update.
C14_OnlyPickSetsStart ==
  [][/\ (op' = "update" => state'.start_point = state.start_point)
     /\ (grab' # None => state'.start_point = grab'.some)]_vars

\* A successful update, after failed ones, that moved last_point away from
\* the grab point.
C14_Witness ==
  /\ Succeeded
  /\ recovered
  /\ grab # None
  /\ state.start_point = grab.some
  /\ state.last_point # grab.some
  /\ state.current_delta # ZERO

\* C15: update returns nothing exactly on a Plane handle whose ray does not
\* meet the plane; on an Axis handle every update returns a Result and
\* stores a point of the axis line and its delta from start_point (snapped
\* when snapping is on).
OnAxisLine(p) == cross(VSub(p, config.translation), normal(self)) = ZERO
C15_OnlyPlaneFails ==
  [][op' = "update" =>
       /\ (ret' = None <=> (transform_kind = "Plane" /\ Parallel(ray'.some)))
       /\ (transform_kind = "Axis" =>
             LET raw == point_on_axis(self, ray'.some)
             IN /\ ret' # None
                /\ OnAxisLine(raw)
                /\ state'.current_delta = VSub(state'.last_point, state.start_point)
                /\ (~config.snapping => state'.last_point = raw))]_vars

\* A Result from a ray that runs along the axis of an Axis handle, in the
\* middle of a drag.
C15_Witness ==
  /\ Succeeded
  /\ transform_kind = "Axis"
  /\ cross(normal(self), ray.some.direction) = ZERO
  /\ state.current_delta # ZERO
  /\ ret.some.value # as_vec3(state.current_delta)

\* The in-plane basis of a Plane handle in world space, and the raw delta of
\* an update with ray r from the state before it.
Rotated(v) == IF config.local_space THEN QRotate(config.rotation, v) ELSE v
Binormal == Rotated(plane_binormal(direction))
Tangent == Rotated(plane_tangent(direction))
RawPoint(r) == point_on_plane(normal(self), plane_global_origin(self), r).some
RawDelta(r) == VSub(RawPoint(r), state.start_point)
Small(x) == Abs(x) * EpsDen <= 1
PlaneSnapStep ==
  op' = "update" /\ ret' # None /\ transform_kind = "Plane" /\ config.snapping

\* C16: on a Plane handle with snapping on, a raw delta whose component along
\* the binormal or along the tangent is no larger than 1e-5 is stored
\* unsnapped, with the raw intersection point as last_point.
C16_AlignedDeltaUnsnapped ==
  [][(/\ PlaneSnapStep
      /\ \/ Small(dot(RawDelta(ray'.some), Binormal))
         \/ Small(dot(RawDelta(ray'.some), Tangent))) =>
       /\ state'.current_delta = RawDelta(ray'.some)
       /\ state'.last_point = RawPoint(ray'.some)]_vars

\* A snapped Plane update whose raw delta lies along one basis vector and is
\* no multiple of the snap distance.
C16_Witness ==
  /\ Succeeded
  /\ transform_kind = "Plane" /\ config.snapping
  /\ state.current_delta # ZERO
  /\ \/ dot(state.current_delta, Binormal) = 0
     \/ dot(state.current_delta, Tangent) = 0
  /\ length(state.current_delta) % config.snap_distance # 0

\* The nearest multiple of d to a component x, with the sign of x.
Quantized(s, x, d) ==
  /\ Abs(s) % d = 0
  /\ 2 * Abs(Abs(s) - Abs(x)) <= d
  /\ s * x >= 0

\* C17: on a Plane handle with snapping on and both in-plane components of
\* the raw delta above 1e-5, the stored delta is in the plane and each of its
\* components is the raw component quantized to the snap distance, sign kept.
C17_PlaneSnapKeepsQuadrant ==
  [][(/\ PlaneSnapStep
      /\ ~Small(dot(RawDelta(ray'.some), Binormal))
      /\ ~Small(dot(RawDelta(ray'.some), Tangent))) =>
       LET cd == state'.current_delta
           sb == dot(cd, Binormal)
           st == dot(cd, Tangent)
       IN /\ cd = VAdd(VMul(Binormal, sb), VMul(Tangent, st))
          /\ Quantized(sb, dot(RawDelta(ray'.some), Binormal), config.snap_distance)
          /\ Quantized(st, dot(RawDelta(ray'.some), Tangent), config.snap_distance)]_vars

\* A snapped Plane update in local space under the half turn, stored with
\* both components nonzero and away from the point under the ray.
C17_Witness ==
  /\ Succeeded
  /\ transform_kind = "Plane" /\ config.snapping /\ config.local_space
  /\ dot(state.current_delta, Binormal) # 0
  /\ dot(state.current_delta, Tangent) # 0
  /\ RawPoint(ray.some) # state.last_point

====
